---- MODULE Spec2Model ----
(***************************************************************************)
(* Verification model of scale_econs_bootstrap_lasso.py: the group         *)
(* demeaner, the gt-cell exclusion of the point-estimate pass and of one   *)
(* bootstrap replication, the clustered resampling plan, the variance      *)
(* stage of a replication (regressor sets, covariance assembly, summary    *)
(* layout) and the parallel batch run with its aggregation.                *)
(*                                                                         *)
(* Python indices are 0-based; the model counts rows, columns and          *)
(* replications from 1.  Floating-point values are modelled as exact       *)
(* rationals <<numerator, denominator>> in lowest terms.                   *)
(***************************************************************************)
EXTENDS Integers, Sequences, FiniteSets, TLC

VARIABLES
    \* demean(var, gt)
    d_var, d_gt, d_out, d_again, d_pc,
    \* the base sample, one resampling vector, and the working sample of the
    \* point-estimate pass (m_) and of one replication (b_) after exclusion
    e_base, e_resampling, e_pc,
    m_excl, m_idx, m_shs, m_g, m_t, m_gt, m_var,
    b_excl, b_idx, b_shs, b_g, b_t, b_gt, b_var,
    \* the resampling plan: the cluster of every base row, the order in which
    \* list(set(clusters)) lists the clusters, the replication being drawn
    \* and its row of the resampling matrix
    p_clusters, p_order, p_rep, p_row, p_pc,
    \* the batch run: the shared inputs of the replications, the state and
    \* result of every task, the pool's result queue, results_store, the
    \* rows of the stores, the rows aggregated, and the parent's position
    r_base, r_lasso, r_resampling, r_task, r_ret, r_outqueue,
    r_results, r_store, r_se, r_pc,
    \* the variance stage of one replication: SHAREABLE, len(TYPE), the
    \* groups of g_included_boot, the three mask collections, whether a
    \* fit accepts an equation without regressors, the type being worked
    \* on, the regressors of its equations, the fields built so far, and
    \* the returned tuple
    v_shareable, v_T, v_gincl, v_lasso, v_emptyfit, v_tt, v_eqs, v_acc,
    v_ret, v_pc, v_cov,
    \* the configuration of a run: the number of goods and of types of
    \* __main__, whether a fit accepts a system without equations, the
    \* width of shs_boot, the tasks started, and the position of the run
    c_goods, c_types, c_emptyfit, c_width, c_started, c_pc,
    \* barten_results: SHAREABLE, len(TYPE), the type of the loop, theta_s
    \* and theta_h of the last pass, and the columns of a
    br_goods, br_T, br_i, br_theta_s, br_theta_h, br_a, br_pc,
    \* scale: the number of goods and of types, the single indicator it is
    \* called with, the type of the loop, and std
    s_K, s_T, s_which, s_i, s_std, s_pc

dvars == <<d_var, d_gt, d_out, d_again, d_pc>>
evars == <<e_base, e_resampling, e_pc,
           m_excl, m_idx, m_shs, m_g, m_t, m_gt, m_var,
           b_excl, b_idx, b_shs, b_g, b_t, b_gt, b_var>>
pvars == <<p_clusters, p_order, p_rep, p_row, p_pc>>
rvars == <<r_base, r_lasso, r_resampling, r_task, r_ret, r_outqueue,
           r_results, r_store, r_se, r_pc>>
vvars == <<v_shareable, v_T, v_gincl, v_lasso, v_emptyfit, v_tt, v_eqs,
           v_acc, v_ret, v_pc, v_cov>>
cvars == <<c_goods, c_types, c_emptyfit, c_width, c_started, c_pc>>
brvars == <<br_goods, br_T, br_i, br_theta_s, br_theta_h, br_a, br_pc>>
svars == <<s_K, s_T, s_which, s_i, s_std, s_pc>>
vars == <<dvars, evars, pvars, rvars, vvars, cvars, brvars, svars>>
\* what the actions of one part leave alone
notD == <<evars, pvars, rvars, vvars, cvars, brvars, svars>>
notE == <<dvars, pvars, rvars, vvars, cvars, brvars, svars>>
notP == <<dvars, evars, rvars, vvars, cvars, brvars, svars>>
notR == <<dvars, evars, pvars, vvars, cvars, brvars, svars>>
notV == <<dvars, evars, pvars, rvars, cvars, brvars, svars>>
notC == <<dvars, evars, pvars, rvars, vvars, brvars, svars>>
notBR == <<dvars, evars, pvars, rvars, vvars, cvars, svars>>
notS == <<dvars, evars, pvars, rvars, vvars, cvars, brvars>>

-----------------------------------------------------------------------------
(* Bounds of the demean model *)
NObs == 2
NVars == 1
NGroups == 2
MaxVal == 1

-----------------------------------------------------------------------------
(* Exact rational arithmetic *)
Abs(n) == IF n < 0 THEN -n ELSE n

RECURSIVE GCD(_, _)
GCD(a, b) == IF b = 0 THEN a ELSE GCD(b, a % b)

Rat(n, d) ==
    IF n = 0 THEN <<0, 1>>
    ELSE LET k == GCD(Abs(n), d) IN <<n \div k, d \div k>>

RatInt(n) == <<n, 1>>
RatZero == <<0, 1>>
RatAdd(a, b) == Rat(a[1] * b[2] + b[1] * a[2], a[2] * b[2])
RatSub(a, b) == Rat(a[1] * b[2] - b[1] * a[2], a[2] * b[2])

RECURSIVE RatSum(_, _)
\* sum of f[n] over the finite set S
RatSum(f, S) ==
    IF S = {} THEN RatZero
    ELSE LET n == CHOOSE x \in S : TRUE
         IN RatAdd(f[n], RatSum(f, S \ {n}))

Min(S) == CHOOSE x \in S : \A y \in S : x <= y

-----------------------------------------------------------------------------
(* demean: lines 23-48.  var is an N x P matrix of rationals; gt is the   *)
(* (rows, columns) pair of csr_array(...).nonzero(), modelled as the set   *)
(* of <<row, group>> pairs it lists.                                       *)

\* the rows listed for any group
GroupIndexAnyGroup(gt, i) == {e[1] : e \in gt}

\* gt[0][np.where(gt[1] == i)]: the rows listed for group i
GroupIndex(gt, i) == {e[1] : e \in {x \in gt : x[2] = i}}

\* np.unique(gt[1])
GroupsOf(gt) == {e[2] : e \in gt}

\* a mean taken over all rows of var instead of the rows of the group
ColMeanGlobal(var, index, p) ==
    LET all == DOMAIN var
    IN  LET s == RatSum([n \in all |-> var[n][p]], all)
        IN Rat(s[1], s[2] * Cardinality(all))

\* a mean with one more in the divisor
ColMeanBiased(var, index, p) ==
    LET s == RatSum([n \in index |-> var[n][p]], index)
    IN Rat(s[1], s[2] * (Cardinality(index) + 1))

\* var[index, :].mean(axis=0)[p]
ColMean(var, index, p) ==
    LET s == RatSum([n \in index |-> var[n][p]], index)
    IN Rat(s[1], s[2] * Cardinality(index))

\* an assignment that writes the group's first row to every row of it
DemeanGroupFirstRow(var, acc, index) ==
    [n \in DOMAIN acc |->
        IF n \in index
        THEN [p \in DOMAIN var[n] |->
                 RatSub(var[Min(index)][p], ColMean(var, index, p))]
        ELSE acc[n]]

\* var_demean[index, :] = var[index, :] - var[index, :].mean(axis=0)
DemeanGroup(var, acc, index) ==
    [n \in DOMAIN acc |->
        IF n \in index
        THEN [p \in DOMAIN var[n] |-> RatSub(var[n][p], ColMean(var, index, p))]
        ELSE acc[n]]

RECURSIVE DemeanLoop(_, _, _, _)
\* for i in np.unique(gt[1]): ascending group order, later groups overwrite
DemeanLoop(var, gt, todo, acc) ==
    IF todo = {} THEN acc
    ELSE LET i == Min(todo)
         IN DemeanLoop(var, gt, todo \ {i},
                       DemeanGroup(var, acc, GroupIndex(gt, i)))

\* np.zeros((var.shape[0], var.shape[1]))
Zeros(var) == [n \in DOMAIN var |-> [p \in DOMAIN var[n] |-> RatZero]]

demean(var, gt) == DemeanLoop(var, gt, GroupsOf(gt), Zeros(var))

DRows == 1..NObs
DCols == 1..NVars
DGroups == 1..NGroups

\* a row of the indicator matrix: no group, one group, or every group
DMemberships == {{}} \cup {{g} : g \in DGroups} \cup {DGroups}

\* csr_array(matrix).nonzero() of an N x G 0/1 indicator matrix
Nonzero(ind) == {e \in (DOMAIN ind) \X DGroups : e[2] \in ind[e[1]]}

DStart ==
    /\ d_var \in [DRows -> [DCols -> {RatInt(v) : v \in 0..MaxVal}]]
    /\ d_gt \in {Nonzero(ind) : ind \in [DRows -> DMemberships]}
    /\ d_out = <<>>
    /\ d_again = <<>>
    /\ d_pc = "input"

Demean ==
    /\ d_pc = "input"
    /\ d_out' = demean(d_var, d_gt)
    /\ d_pc' = "done"
    /\ UNCHANGED <<d_var, d_gt, d_again, notD>>

\* demean(demean(var, gt), gt): the function applied to its own output
DemeanAgain ==
    /\ d_pc = "done"
    /\ d_again' = demean(d_out, d_gt)
    /\ d_pc' = "again"
    /\ UNCHANGED <<d_var, d_gt, d_out, notD>>

DIdle ==
    /\ d_var = <<>> /\ d_gt = {} /\ d_out = <<>> /\ d_again = <<>>
    /\ d_pc = "idle"

DNext == Demean \/ DemeanAgain

\* every row is listed for exactly one group
EachRowOneGroup(gt, rows) ==
    \A n \in rows : Cardinality({e \in gt : e[1] = n}) = 1

(* C1: after demean(var, gt) with every row in exactly one group, for      *)
(* every group g and column p the output values of the rows of g sum to 0. *)
C1_GroupSumsZero ==
    (d_pc = "done" /\ EachRowOneGroup(d_gt, DRows)) =>
        \A g \in DGroups : \A p \in DCols :
            RatSum([n \in GroupIndex(d_gt, g) |-> d_out[n][p]],
                   GroupIndex(d_gt, g)) = RatZero

\* a group of two rows with different values has been demeaned
C1_Witness ==
    /\ d_pc = "done"
    /\ EachRowOneGroup(d_gt, DRows)
    /\ \E g \in DGroups : \E n, m \in GroupIndex(d_gt, g) : \E p \in DCols :
          /\ d_var[n][p] # d_var[m][p]
          /\ d_out[n][p] # RatZero

-----------------------------------------------------------------------------
(* gt-cell exclusion: lines 212-256 (one replication) and 595-639 (the     *)
(* point-estimate pass).  An observation is a row of the base sample; the  *)
(* province and year dummies z29..z50 put it in one province-year group    *)
(* and the filter of line 560 with the sm/sf split gives it one type       *)
(* column of t (1 = sm, 2 = sf, 2+k = h{k}).                               *)

(* Bounds of the exclusion model *)
ENObs == 3
EGroups == 2
ETypes == 1

ERows == 1..ENObs
EG == 1..EGroups
ETCols == 1..(ETypes + 2)
\* column of gt for type column tc and group gc: tc * G + gc (0-based)
GtCol(tc, gc) == (tc - 1) * EGroups + gc
GtCols == 1..((ETypes + 2) * EGroups)

\* shs_data.loc[resampling]: row j is base observation resampling[j], and
\* keeps that observation's index label
Loc(base, resampling) ==
    [j \in DOMAIN resampling |->
        [label |-> resampling[j],
         g |-> base[resampling[j]].g, t |-> base[resampling[j]].t]]

\* g: N x G indicator of the province-year group (lines 213-222).  Every
\* row of g, t and gt holds a single 1 and is modelled by the column of it.
GInd(data) == [j \in DOMAIN data |-> data[j].g]

\* t: N x (2+T) indicator of sm, sf, h1.. (lines 224-229)
TInd(data) == [j \in DOMAIN data |-> data[j].t]

\* gt = (g[:, None] * t[..., None]).reshape(N, -1) (lines 231-234)
GtInd(g, t) == [j \in DOMAIN g |-> GtCol(t[j], g[j])]

\* gt[i][gt[i] == 1]: the positions in column i
Members(gt, i) == {j \in DOMAIN gt : gt[j] = i}

\* a cell is excluded when its membership count over all resampled rows is 1
BootGtExcludedBySum(gt, labels) ==
    {i \in GtCols : Cardinality(Members(gt, i)) = 1}

\* gt_excluded of a replication (lines 235-239):
\* len(np.unique(gt[i][gt[i] == 1].index)) == 1
BootGtExcluded(gt, labels) ==
    {i \in GtCols : Cardinality({labels[j] : j \in Members(gt, i)}) = 1}

\* idx_excluded of a replication (lines 240-243): after reset_index, every
\* position of every excluded column
BootIdxExcluded(gt, excluded) ==
    UNION {Members(gt, i) : i \in excluded}

\* gt_excluded of the point-estimate pass at an off-by-one count
MainGtExcludedTwo(gt) == {i \in GtCols : Cardinality(Members(gt, i)) = 2}

\* gt_excluded of the point-estimate pass (line 623): gt[i].sum() == 1
MainGtExcluded(gt) == {i \in GtCols : Cardinality(Members(gt, i)) = 1}

\* idx_excluded of the point-estimate pass (lines 624-628): the first
\* position of every excluded column
MainIdxExcluded(gt, excluded) == {Min(Members(gt, i)) : i \in excluded}

RECURSIVE DropFrom(_, _, _)
DropFrom(seq, idx, k) ==
    IF k > Len(seq) THEN <<>>
    ELSE IF k \in idx THEN DropFrom(seq, idx, k + 1)
    ELSE <<seq[k]>> \o DropFrom(seq, idx, k + 1)

\* .drop(idx).reset_index(drop=True), np.delete(t, idx, 0): the rows at
\* the positions outside idx, in order
Drop(seq, idx) == DropFrom(seq, idx, 1)

\* the rows of t at the positions next to those of idx
DeleteRowsShifted(t, idx) == Drop(t, {k + 1 : k \in idx})

\* np.delete(t, idx_excluded, 0) (lines 248, 631)
DeleteRows(t, idx) == Drop(t, idx)

\* csr_array(gt.drop(idx).reset_index(drop=True).values).nonzero()
GtNonzero(gt) == {<<n, gt[n]>> : n \in DOMAIN gt}

\* the rows of each province-year cluster are contiguous in the base sample
Contiguous(base) ==
    \A i, j, k \in DOMAIN base :
        (i < j /\ j < k /\ base[i].g = base[k].g) => base[j].g = base[i].g

\* the resampling vectors that redraw every position within its own cluster
ClusterDraws(base) ==
    {v \in [DOMAIN base -> DOMAIN base] : \A j \in DOMAIN base : base[v[j]].g = base[j].g}

\* the resampling plan indexes the second cluster (line 844), so a base
\* sample that reaches the bootstrap has at least two clusters
TwoClusters(base) == \E i, j \in DOMAIN base : base[i].g # base[j].g

EStart ==
    /\ e_base \in {b \in [ERows -> [g : EG, t : ETCols]] :
                      Contiguous(b) /\ TwoClusters(b)}
    /\ e_resampling = <<>>
    /\ e_pc = "start"
    /\ m_excl = {} /\ m_idx = {} /\ m_shs = <<>> /\ m_g = <<>> /\ m_t = <<>> /\ m_gt = {} /\ m_var = <<>>
    /\ b_excl = {} /\ b_idx = {} /\ b_shs = <<>> /\ b_g = <<>> /\ b_t = <<>> /\ b_gt = {} /\ b_var = <<>>

EIdle ==
    /\ e_base = <<>> /\ e_resampling = <<>> /\ e_pc = "idle"
    /\ m_excl = {} /\ m_idx = {} /\ m_shs = <<>> /\ m_g = <<>> /\ m_t = <<>> /\ m_gt = {} /\ m_var = <<>>
    /\ b_excl = {} /\ b_idx = {} /\ b_shs = <<>> /\ b_g = <<>> /\ b_t = <<>> /\ b_gt = {} /\ b_var = <<>>

\* res_boot[NAME_g] (lines 393, 790-793): the group of every row of the
\* working sample that has h{tt+1} == 1
ResOfType(g, t, tt) == Drop(g, {n \in DOMAIN t : t[n] # tt + 2})

\* g_included (lines 394, 794): the groups with a row count >= 2
GIncluded(res) ==
    {i \in EG : Cardinality({n \in DOMAIN res : res[n] = i}) >= 2}

\* csr_array(res_boot[NAME_g].values).nonzero() (lines 398-399, 798-799)
GNew(res) == {<<n, res[n]>> : n \in DOMAIN res}

\* the groups of the variance stage, for every couple type
VarianceGroups(g, t) ==
    [tt \in 1..ETypes |->
        [g_included |-> GIncluded(ResOfType(g, t, tt)),
         g_new |-> GNew(ResOfType(g, t, tt))]]

\* the exclusion of the point-estimate pass (lines 595-639): the excluded
\* columns, the dropped positions, and shs_data, g, t, gt re-sliced
MainExclusion(base) ==
    LET data == Loc(base, [j \in DOMAIN base |-> j])
        g == GInd(data)
        t == TInd(data)
        gt == GtInd(g, t)
        excluded == MainGtExcluded(gt)
        idx == MainIdxExcluded(gt, excluded)
    IN [excl |-> excluded, idx |-> idx,
        shs |-> Drop(data, idx), g |-> Drop(g, idx),
        t |-> DeleteRows(t, idx),
        gt |-> GtNonzero(Drop(gt, idx)),
        var |-> VarianceGroups(Drop(g, idx), DeleteRows(t, idx))]

\* the exclusion of one replication (lines 197-256)
BootExclusion(base, resampling) ==
    LET data == Loc(base, resampling)
        g == GInd(data)
        t == TInd(data)
        gt == GtInd(g, t)
        excluded == BootGtExcluded(gt, resampling)
        idx == BootIdxExcluded(gt, excluded)
    IN [excl |-> excluded, idx |-> idx,
        shs |-> Drop(data, idx), g |-> Drop(g, idx),
        t |-> DeleteRows(t, idx),
        gt |-> GtNonzero(Drop(gt, idx)),
        var |-> VarianceGroups(Drop(g, idx), DeleteRows(t, idx))]

\* __main__, lines 595-639
PointEstimate ==
    /\ e_pc = "start"
    /\ \E r \in {MainExclusion(e_base)} :
          /\ m_excl' = r.excl
          /\ m_idx' = r.idx
          /\ m_shs' = r.shs
          /\ m_g' = r.g
          /\ m_t' = r.t
          /\ m_gt' = r.gt
          /\ m_var' = r.var
    /\ e_pc' = "point"
    /\ UNCHANGED <<e_base, e_resampling, b_excl, b_idx, b_shs, b_g, b_t, b_gt,
                   b_var, notE>>

\* bootstrap(), lines 197-256, for one resampling vector
Replicate ==
    /\ e_pc = "point"
    /\ \E resampling \in ClusterDraws(e_base) :
        \E r \in {BootExclusion(e_base, resampling)} :
           /\ e_resampling' = resampling
           /\ b_excl' = r.excl
           /\ b_idx' = r.idx
           /\ b_shs' = r.shs
           /\ b_g' = r.g
           /\ b_t' = r.t
           /\ b_gt' = r.gt
           /\ b_var' = r.var
    /\ e_pc' = "done"
    /\ UNCHANGED <<e_base, m_excl, m_idx, m_shs, m_g, m_t, m_gt, m_var, notE>>

ENext == PointEstimate \/ Replicate


\* the gt column of resampled row j
CellOf(base, resampling, j) == GtCol(base[resampling[j]].t, base[resampling[j]].g)

\* the number of resampled rows in column i, counting every row
CellCount(base, resampling, i) ==
    Cardinality({j \in DOMAIN resampling : CellOf(base, resampling, j) = i})

\* the number of distinct base observations among the rows in column i
CellDistinct(base, resampling, i) ==
    Cardinality({resampling[j] : j \in {k \in DOMAIN resampling : CellOf(base, resampling, k) = i}})

\* the positions of the rows of the excluded columns
InExcluded(base, resampling, excluded) ==
    {j \in DOMAIN resampling : CellOf(base, resampling, j) \in excluded}

\* the working sample holds the resampled rows outside idx, and no other
KeptOutside(base, resampling, idx, kept) ==
    /\ Len(kept) = Len(resampling) - Cardinality(idx)
    /\ \A j \in DOMAIN resampling :
          j \notin idx =>
              kept[j - Cardinality({k \in idx : k < j})].label = resampling[j]

(* C2 as stated: in a replication a gt-cell is excluded exactly when its   *)
(* membership count over all resampled rows is 1; every row of an excluded *)
(* cell is dropped and no row of any other cell is dropped.                *)
C2_ExcludedIffCountOne ==
    e_pc = "done" =>
        /\ \A i \in GtCols :
              (i \in b_excl) <=> (CellCount(e_base, e_resampling, i) = 1)
        /\ b_idx = InExcluded(e_base, e_resampling, b_excl)
        /\ KeptOutside(e_base, e_resampling, b_idx, b_shs)

(* C2 amended: in a replication a gt-cell is excluded exactly when the     *)
(* resampled rows in it come from exactly 1 distinct base observation,     *)
(* however often that observation was drawn; every row of an excluded cell *)
(* is dropped and no row of any other cell is dropped.                     *)
C2_ExcludedIffOneDistinct ==
    e_pc = "done" =>
        /\ \A i \in GtCols :
              (i \in b_excl) <=> (CellDistinct(e_base, e_resampling, i) = 1)
        /\ b_idx = InExcluded(e_base, e_resampling, b_excl)
        /\ KeptOutside(e_base, e_resampling, b_idx, b_shs)

\* a cell holding one observation drawn twice has been excluded and both
\* of its rows dropped
C2_Witness ==
    /\ e_pc = "done"
    /\ \E i \in b_excl :
          /\ CellCount(e_base, e_resampling, i) = 2
          /\ CellDistinct(e_base, e_resampling, i) = 1
          /\ Cardinality(b_idx) >= 2

\* exactly one gt-cell of the base sample has exactly one member
OneSingletonCell(base) ==
    Cardinality({i \in GtCols :
        Cardinality({j \in DOMAIN base : GtCol(base[j].t, base[j].g) = i}) = 1}) = 1

\* the member of the singleton cell
SingletonMember(base) ==
    CHOOSE j \in DOMAIN base :
        Cardinality({k \in DOMAIN base :
            GtCol(base[k].t, base[k].g) = GtCol(base[j].t, base[j].g)}) = 1

Identity(base) == [j \in DOMAIN base |-> j]

\* the base observations a working sample holds, in row order
Labels(shs) == [n \in DOMAIN shs |-> shs[n].label]

(* C3: when exactly one gt-cell of the base sample has exactly one member, *)
(* the point-estimate pass and a replication run with the identity         *)
(* resampling vector both remove that member and only that member, so both *)
(* work on the same rows.                                                  *)
C3_SamePassesOnSingleton ==
    (e_pc = "done" /\ OneSingletonCell(e_base) /\ e_resampling = Identity(e_base)) =>
        LET rest == Drop(Identity(e_base), {SingletonMember(e_base)})
        IN /\ m_idx = {SingletonMember(e_base)}
           /\ b_idx = {SingletonMember(e_base)}
           /\ Labels(m_shs) = rest
           /\ Labels(b_shs) = rest
           /\ m_shs = b_shs

\* both passes have run on a base sample with one singleton cell and a
\* cell of two members, the replication with the identity vector
C3_Witness ==
    /\ e_pc = "done"
    /\ OneSingletonCell(e_base)
    /\ e_resampling = Identity(e_base)
    /\ Len(b_shs) = Len(e_base) - 1
    /\ Len(m_shs) = Len(e_base) - 1

-----------------------------------------------------------------------------
(* The resampling plan: lines 607-611 (clusters) and 842-867 (resampling). *)
(* The rep rows of every np.random.choice call are independent draws; the  *)
(* model draws the matrix one replication row at a time, keeps the row     *)
(* being drawn and forgets it when it turns to the next replication.       *)
(* Positions and row indices are 0-based as in the code.                   *)

(* Bounds of the resampling-plan model *)
PNObs == 3
PGroups == 3
PRep == 2

\* clusters.index(c): the first 0-based position of cluster c
ClusterIndex(clusters, c) == Min({j \in DOMAIN clusters : clusters[j] = c}) - 1

\* the orders in which iterating set(clusters) may list its elements
SetOrders(clusters) ==
    LET ids == {clusters[j] : j \in DOMAIN clusters}
    IN {o \in [1..Cardinality(ids) -> ids] : \A a, b \in DOMAIN o : a # b => o[a] # o[b]}

\* the blocks <<low, high, size>> of the np.random.choice calls, in the order
\* they are appended: range(low, high) drawn size times per replication
PlanBlocks(clusters, order) ==
    LET M == Len(order)
        N == Len(clusters)
        first == <<0, ClusterIndex(clusters, order[2]),
                   ClusterIndex(clusters, order[2])>>
        middle == [i \in 1..(M - 2) |->
                     <<ClusterIndex(clusters, order[i + 1]),
                       ClusterIndex(clusters, order[i + 2]),
                       ClusterIndex(clusters, order[i + 2])
                           - ClusterIndex(clusters, order[i + 1])>>]
        last == <<ClusterIndex(clusters, order[M]), N,
                  N - ClusterIndex(clusters, order[M])>>
    IN <<first>> \o middle \o <<last>>

\* the values drawn for a block with its lower end forgotten: range(high)
BlockValuesFromZero(b) == 0..(b[2] - 1)

\* the values np.random.choice draws for a block: range(low, high)
BlockValues(b) == b[1]..(b[2] - 1)

RECURSIVE BlockOfPosition(_, _, _)
\* the block whose columns hold 0-based position pos of the appended matrix
BlockOfPosition(blocks, k, pos) ==
    IF pos < blocks[k][3] THEN blocks[k]
    ELSE BlockOfPosition(blocks, k + 1, pos - blocks[k][3])

RECURSIVE TotalSize(_, _)
TotalSize(blocks, k) ==
    IF k > Len(blocks) THEN 0 ELSE blocks[k][3] + TotalSize(blocks, k + 1)

\* one row of resampling: np.append(..., axis=1) of one draw per block column
PlanRows(blocks) ==
    {row \in [0..(TotalSize(blocks, 1) - 1) -> 0..(blocks[Len(blocks)][2] - 1)] :
        \A pos \in DOMAIN row : row[pos] \in BlockValues(BlockOfPosition(blocks, 1, pos))}

PStart ==
    /\ p_clusters \in [1..PNObs -> 1..PGroups]
    /\ p_order \in SetOrders(p_clusters)
    /\ p_rep = 0
    /\ p_row = <<>>
    /\ p_pc = "plan"

PIdle ==
    /\ p_clusters = <<>> /\ p_order = <<>> /\ p_rep = 0 /\ p_row = <<>> /\ p_pc = "idle"

\* list(set(clusters))[1] with a single cluster (line 844)
PlanIndexError ==
    /\ p_pc = "plan"
    /\ p_rep = 0
    /\ Len(p_order) < 2
    /\ p_pc' = "IndexError"
    /\ UNCHANGED <<p_clusters, p_order, p_rep, p_row, notP>>

\* np.random.choice over an empty range with a negative size
PlanValueError ==
    /\ p_pc = "plan"
    /\ p_rep = 0
    /\ Len(p_order) >= 2
    /\ \E k \in DOMAIN PlanBlocks(p_clusters, p_order) :
          PlanBlocks(p_clusters, p_order)[k][3] < 0
    /\ p_pc' = "ValueError"
    /\ UNCHANGED <<p_clusters, p_order, p_rep, p_row, notP>>

\* row p_rep + 1 of the resampling matrix
PlanDraw ==
    /\ p_pc = "plan"
    /\ Len(p_order) >= 2
    /\ p_rep < PRep
    /\ \E blocks \in {PlanBlocks(p_clusters, p_order)} :
          /\ \A k \in DOMAIN blocks : blocks[k][3] >= 0
          /\ \E row \in PlanRows(blocks) : p_row' = row
    /\ p_rep' = p_rep + 1
    /\ p_pc' = "drawn"
    /\ UNCHANGED <<p_clusters, p_order, notP>>

\* the next of the rep rows of size=(rep, ...)
PlanNextRow ==
    /\ p_pc = "drawn"
    /\ p_rep < PRep
    /\ p_row' = <<>>
    /\ p_pc' = "plan"
    /\ UNCHANGED <<p_clusters, p_order, p_rep, notP>>

PNext == PlanIndexError \/ PlanValueError \/ PlanDraw \/ PlanNextRow

-----------------------------------------------------------------------------
(* The batch run: lines 870-914.  The parent submits one task per row of   *)
(* the resampling matrix to a process pool, collects the results through   *)
(* pool.imap, copies them into the stores and aggregates.  A replication   *)
(* is summarised by the data rows of its working sample and the masks it   *)
(* was given; it raises when a type column has no rows left, which leaves  *)
(* the regressors of that type all zero in the SUR system of line 315.     *)

(* Bounds of the batch-run model *)
RRep == 2
PoolSize == 2

RReps == 1..RRep

\* two observations of type column tc in group gc; x is their data
TwoRows(tc, gc, x) ==
    <<[g |-> gc, t |-> tc, x |-> x], [g |-> gc, t |-> tc, x |-> x + 1]>>

RECURSIVE TypePairs(_, _, _, _)
TypePairs(tc, skip, gc, x) ==
    IF tc > ETypes + 2 THEN <<>>
    ELSE IF tc = skip THEN TypePairs(tc + 1, skip, gc, x)
    ELSE TwoRows(tc, gc, x) \o TypePairs(tc + 1, skip, gc, x + 2)

\* shs_boot (line 592): a first cluster with two observations of one type
\* and a second cluster with two observations of every other type, so that
\* the point-estimate pass (lines 620-708) keeps every type
RunBase(first) == TwoRows(first, 1, 1) \o TypePairs(1, first, 2, 3)

RunBases == {RunBase(tc) : tc \in ETCols}

\* the rows of the first cluster
FirstBlock(base) == {j \in DOMAIN base : base[j].g = base[1].g}

\* rows of resampling that redraw the first cluster and keep the others
RunDraws(base) ==
    {[j \in DOMAIN base |-> IF j \in FirstBlock(base) THEN f[j] ELSE j] :
        f \in [FirstBlock(base) -> FirstBlock(base)]}

\* lasso_selec, lasso_l, lasso_u (lines 760-839)
RunMasks == {<<"selec", "selec", "selec">>, <<"selec", "l", "u">>}

NoResult == [raised |-> FALSE, rows |-> <<>>, lasso |-> <<>>]

\* a type column of t without rows: its er{i}y_ and z{i}_ regressors are
\* all zero and SUR(mean_boot_eqs).fit raises (line 315)
Degenerate(t) == \E tc \in ETCols : \A n \in DOMAIN t : t[n] # tc

\* bootstrap(resampling, shs_data, lasso_selec, lasso_l, lasso_u)
bootstrap(resampling, shs_data, lasso) ==
    LET r == BootExclusion(shs_data, resampling)
    IN IF Degenerate(r.t)
       THEN [raised |-> TRUE, rows |-> <<>>, lasso |-> <<>>]
       ELSE [raised |-> FALSE,
             rows |-> [n \in DOMAIN r.shs |-> shs_data[r.shs[n].label].x],
             lasso |-> lasso]

\* bootstrap_star(args) (lines 535-536)
bootstrap_star(args) == bootstrap(args[1], args[2], args[3])

\* the shared array after shs_data[:] = shs_data[resampling]
SharedAfterInPlace(shs_data, resampling) ==
    [j \in DOMAIN shs_data |-> shs_data[resampling[j]]]

\* the shared array after a replication: lines 197-209 and 245-247 bind the
\* local name to new frames and leave the argument as it was
SharedAfter(shs_data, resampling) == shs_data

\* the next result of an iterator that yields in completion order
ImapUnorderedIndex(n, outqueue) ==
    IF Len(outqueue) > n THEN outqueue[n + 1] ELSE n + 1

\* the task whose result pool.imap yields after n results: the next in
\* submission order, whatever has arrived in the result queue
ImapIndex(n, outqueue) == n + 1

\* an iterator that hands a failed task's result on as a value
NextOutcomeLenient(res) == "yield"

\* next() on the imap iterator re-raises the exception of a failed task
NextOutcome(res) == IF res.raised THEN "raise" ELSE "yield"

Finished(outqueue) == {outqueue[k] : k \in DOMAIN outqueue}

RStart ==
    /\ r_base \in RunBases
    /\ r_lasso \in RunMasks
    /\ r_resampling \in [RReps -> RunDraws(r_base)]
    /\ r_task = [i \in RReps |-> "queued"]
    /\ r_ret = [i \in RReps |-> NoResult]
    /\ r_outqueue = <<>>
    /\ r_results = <<>>
    /\ r_store = <<>>
    /\ r_se = <<>>
    /\ r_pc = "imap"

RIdle ==
    /\ r_base = <<>> /\ r_lasso = <<>> /\ r_resampling = <<>>
    /\ r_task = <<>> /\ r_ret = <<>> /\ r_outqueue = <<>>
    /\ r_results = <<>> /\ r_store = <<>> /\ r_se = <<>> /\ r_pc = "idle"

\* a free worker takes the next task of args (lines 871-877)
TaskStart ==
    /\ r_pc = "imap"
    /\ \E i \in RReps :
          /\ r_task[i] = "queued"
          /\ \A k \in RReps : k < i => r_task[k] # "queued"
          /\ Cardinality({k \in RReps : r_task[k] = "running"}) < PoolSize
          /\ r_task' = [r_task EXCEPT ![i] = "running"]
    /\ UNCHANGED <<r_base, r_lasso, r_resampling, r_ret, r_outqueue,
                   r_results, r_store, r_se, r_pc, notR>>

\* a worker runs bootstrap_star on its task and puts the result, or the
\* exception, in the result queue
TaskFinish ==
    /\ r_pc = "imap"
    /\ \E i \in {k \in RReps : r_task[k] = "running"} :
        \E res \in {bootstrap_star(<<r_resampling[i], r_base, r_lasso>>)} :
          /\ r_ret' = [r_ret EXCEPT ![i] = res]
          /\ r_task' = [r_task EXCEPT ![i] = IF res.raised THEN "raised" ELSE "done"]
          /\ r_outqueue' = Append(r_outqueue, i)
          /\ r_base' = SharedAfter(r_base, r_resampling[i])
    /\ UNCHANGED <<r_lasso, r_resampling, r_results, r_store, r_se, r_pc, notR>>

\* list(pool.imap(...)) takes the next result (line 877)
ImapYield ==
    /\ r_pc = "imap"
    /\ Len(r_results) < RRep
    /\ \E i \in {ImapIndex(Len(r_results), r_outqueue)} :
          /\ i \in Finished(r_outqueue)
          /\ NextOutcome(r_ret[i]) = "yield"
          /\ r_results' = Append(r_results, r_ret[i])
    /\ UNCHANGED <<r_base, r_lasso, r_resampling, r_task, r_ret, r_outqueue,
                   r_store, r_se, r_pc, notR>>

\* list(pool.imap(...)) meets the exception of a failed task (line 877):
\* it propagates out of __main__
ImapRaise ==
    /\ r_pc = "imap"
    /\ Len(r_results) < RRep
    /\ \E i \in {ImapIndex(Len(r_results), r_outqueue)} :
          /\ i \in Finished(r_outqueue)
          /\ NextOutcome(r_ret[i]) = "raise"
    /\ r_pc' = "crashed"
    /\ UNCHANGED <<r_base, r_lasso, r_resampling, r_task, r_ret, r_outqueue,
                   r_results, r_store, r_se, notR>>

\* pool.close(), pool.join() and the empty stores (lines 878-897)
PoolJoin ==
    /\ r_pc = "imap"
    /\ Len(r_results) = RRep
    /\ r_store' = <<>>
    /\ r_pc' = "stores"
    /\ UNCHANGED <<r_base, r_lasso, r_resampling, r_task, r_ret, r_outqueue,
                   r_results, r_se, notR>>

\* one pass of the loop of lines 899-908: row i of every store
StoreRow ==
    /\ r_pc = "stores"
    /\ Len(r_store) < RRep
    /\ r_store' = Append(r_store, r_results[Len(r_store) + 1])
    /\ UNCHANGED <<r_base, r_lasso, r_resampling, r_task, r_ret, r_outqueue,
                   r_results, r_se, r_pc, notR>>

\* np.std(..., axis=0) over the rows of the stores (lines 911-914)
Aggregate ==
    /\ r_pc = "stores"
    /\ Len(r_store) = RRep
    /\ r_se' = r_store
    /\ r_pc' = "aggregated"
    /\ UNCHANGED <<r_base, r_lasso, r_resampling, r_task, r_ret, r_outqueue,
                   r_results, r_store, notR>>

RNext ==
    \/ TaskStart \/ TaskFinish \/ ImapYield \/ ImapRaise
    \/ PoolJoin \/ StoreRow \/ Aggregate

-----------------------------------------------------------------------------
(* The variance stage of one replication: lines 387-533.  Column names are *)
(* modelled as sequences of tokens ("ber", the digits of a good, ".", "y", *)
(* "_", "sum", "prod", "g", "eq", "h"), on which the substring tests of    *)
(* lines 408 and 438 are computed.  Estimates are symbolic: an entry of a  *)
(* summary field is the name or the place it was computed for.             *)

(* Bounds of the variance-stage model *)
MaxK == 2
MaxT == 2
VGroups == 2

\* SHAREABLE: the default of bootstrap() (line 193)
SHAREABLE == <<1, 2, 8, 17, 19>>
\* a SHAREABLE in which the number of one good is a prefix of another's
PrefixedGoods == <<1, 17, 19>>

\* str(n) of an f-string, one token for every digit
DigitChars == <<"0", "1", "2", "3", "4", "5", "6", "7", "8", "9">>

RECURSIVE Digits(_)
Digits(n) ==
    IF n < 10 THEN <<DigitChars[n + 1]>>
    ELSE Digits(n \div 10) \o <<DigitChars[(n % 10) + 1]>>

RECURSIVE FlattenFrom(_, _)
FlattenFrom(ss, k) ==
    IF k > Len(ss) THEN <<>> ELSE ss[k] \o FlattenFrom(ss, k + 1)

\* sum(lists, []) and pd.concat of the parts in order
Flatten(ss) == FlattenFrom(ss, 1)

\* needle in hay, for strings
Contains(hay, needle) ==
    \E k \in 0..(Len(hay) - Len(needle)) :
        \A n \in 1..Len(needle) : hay[k + n] = needle[n]

\* col in list
InList(list, col) == \E n \in DOMAIN list : list[n] = col

\* the good pairs (i, j), i <= j, in the order of the loops of lines 340-341
GoodPairs(K) ==
    Flatten([i \in 1..K |-> [d \in 1..(K - i + 1) |-> <<i, i + d - 1>>]])

\* len(NAME_res_crossprod) = K(K+1)/2
NPairs(K) == Len(GoodPairs(K))

\* f'res{a}.{b}' (line 346)
ResName(a, b) == <<"res">> \o Digits(a) \o <<".">> \o Digits(b)
\* f'ber{a}.{b}y_prod' (line 354)
ProdName(a, b) == <<"ber">> \o Digits(a) \o <<".">> \o Digits(b) \o <<"y", "_", "prod">>
\* f'ber{a}.{b}y_sum' (line 362)
SumName(a, b) == <<"ber">> \o Digits(a) \o <<".">> \o Digits(b) \o <<"y", "_", "sum">>
\* f'g{i+1}' (line 221)
GName(i) == <<"g">> \o Digits(i)
\* f'{i}_{j}' (lines 379, 396)
GSumName(i, sum) == GName(i) \o <<"_">> \o sum
\* f'eq{i+1}' joined to a column by linearmodels: 'eq{i+1}_{col}'
ParamName(i, col) == <<"eq">> \o Digits(i) \o <<"_">> \o col

NAME_res_crossprod(shareable) ==
    [p \in 1..NPairs(Len(shareable)) |->
        ResName(shareable[GoodPairs(Len(shareable))[p][1]],
                shareable[GoodPairs(Len(shareable))[p][2]])]
NAME_bery_crossprod(shareable) ==
    [p \in 1..NPairs(Len(shareable)) |->
        ProdName(shareable[GoodPairs(Len(shareable))[p][1]],
                 shareable[GoodPairs(Len(shareable))[p][2]])]
NAME_bery_crosssum(shareable) ==
    [p \in 1..NPairs(Len(shareable)) |->
        SumName(shareable[GoodPairs(Len(shareable))[p][1]],
                shareable[GoodPairs(Len(shareable))[p][2]])]

\* NAME_res_crossprod[i].replace("res", "ber") + 'y' (line 407)
BerName(res) == [n \in DOMAIN res |-> IF res[n] = "res" THEN "ber" ELSE res[n]] \o <<"y">>

\* g_bery_included (lines 395-397): for i in g_included for j in the sums
GBeryIncluded(g_included, sums) ==
    Flatten([n \in DOMAIN g_included |->
        [p \in DOMAIN sums |-> GSumName(g_included[n], sums[p])]])

\* exog.columns of equation i (lines 408-409)
ExogColumns(g_included, shareable, i) ==
    SelectSeq(GBeryIncluded(g_included, NAME_bery_crosssum(shareable)),
              LAMBDA j : Contains(j, BerName(NAME_res_crossprod(shareable)[i])))
    \o <<NAME_bery_crossprod(shareable)[i]>>

\* [col for col in mask if col in exog.columns.tolist()] (lines 413-430)
MaskFilter(mask, columns) == SelectSeq(mask, LAMBDA col : InList(columns, col))

\* var_eqs_boot, var_eqs_l_boot, var_eqs_u_boot of type tt (lines 402-431):
\* the regressors of every equation of the three systems
VarEqs(tt, g_included, shareable, lasso) ==
    LET np == NPairs(Len(shareable))
        sys(masks) ==
            [i \in 1..np |->
                MaskFilter(masks[(tt - 1) * np + i],
                           ExogColumns(g_included, shareable, i))]
    IN [selec |-> sys(lasso.selec), l |-> sys(lasso.l), u |-> sys(lasso.u)]

\* params.index of a fitted system: 'eq{i}_{col}' in equation order
ParamIndex(eqs) ==
    Flatten([i \in DOMAIN eqs |-> [n \in DOMAIN eqs[i] |-> ParamName(i, eqs[i][n])]])

\* params[params.index.str.contains("prod")] (lines 437-445)
CovVal(eqs) == SelectSeq(ParamIndex(eqs), LAMBDA name : Contains(name, <<"prod">>))

\* cov_matrix[np.triu_indices_from(cov_matrix, k=0)] = val (lines 450, 456,
\* 462): numpy takes K(K+1)/2 values, or broadcasts a single one
TriuAssigns(K, val) == Len(val) = NPairs(K) \/ Len(val) = 1

\* np.triu_indices_from(cov_matrix, k=0): the place of entry (i, j),
\* i <= j, in the row-major order of the upper triangle
TriuIndex(K, i, j) == ((i - 1) * K - ((i - 1) * (i - 2)) \div 2) + (j - i + 1)

\* the values assigned to the K(K+1)/2 places: val, or its single value
\* at every place
Broadcast(K, val) ==
    IF Len(val) = 1 THEN [n \in 1..NPairs(K) |-> val[1]] ELSE val

\* np.empty((K, K)) with the upper triangle assigned (lines 449-450)
TriuFill(K, val) ==
    [i \in 1..K |-> [j \in 1..K |->
        IF i <= j THEN Broadcast(K, val)[TriuIndex(K, i, j)] ELSE <<"empty">>]]

\* cov_matrix[tril] = cov_matrix.T[tril] (lines 451-453)
MirrorLower(m) ==
    [i \in DOMAIN m |-> [j \in DOMAIN m |-> IF i > j THEN m[j][i] ELSE m[i][j]]]

\* cov_matrix, cov_l and cov_u of one type (lines 449-465); an entry is the
\* name of the coefficient it holds
CovMatrices(K, eqs) ==
    [selec |-> MirrorLower(TriuFill(K, CovVal(eqs.selec))),
     l |-> MirrorLower(TriuFill(K, CovVal(eqs.l))),
     u |-> MirrorLower(TriuFill(K, CovVal(eqs.u)))]

\* an equation without regressors
EmptyEquation(eqs) == \E i \in DOMAIN eqs : eqs[i] = <<>>

\* the masks of the point-estimate pass (lines 789-839): the selected
\* columns of an exog built from every group
FullMask(shareable, i) == ExogColumns([g \in 1..VGroups |-> g], shareable, i)
\* a mask in which the cross-product got a zero coefficient
NoProdMask(shareable, i) ==
    SubSeq(FullMask(shareable, i), 1, Len(FullMask(shareable, i)) - 1)

\* lasso_selec with the cross-product missing in the equations lacking of
\* type t0
Lasso(shareable, T, t0, lacking) ==
    LET np == NPairs(Len(shareable))
    IN [e \in 1..(T * np) |->
          IF ((e - 1) \div np) + 1 = t0 /\ ((e - 1) % np) + 1 \in lacking
          THEN NoProdMask(shareable, ((e - 1) % np) + 1)
          ELSE FullMask(shareable, ((e - 1) % np) + 1)]

NoAcc == [cov |-> <<>>, cov_pd |-> <<>>, cor |-> <<>>,
          std |-> <<>>, std_l |-> <<>>, std_u |-> <<>>]
NoEqs == [selec |-> <<>>, l |-> <<>>, u |-> <<>>]

\* the entries type tt adds to the six fields (lines 447, 472-507)
TypeEntries(tt, K, cov_val_new) ==
    [cov |-> [n \in DOMAIN cov_val_new |-> cov_val_new[n] \o <<"_", "h">> \o Digits(tt)],
     cov_pd |-> [p \in 1..NPairs(K) |-> <<"cov_pd", GoodPairs(K)[p], tt>>],
     cor |-> [p \in 1..NPairs(K) |-> <<"cor", GoodPairs(K)[p], tt>>],
     std |-> [k \in 1..K |-> <<"std", k, tt>>],
     std_l |-> [k \in 1..K |-> <<"std_l", k, tt>>],
     std_u |-> [k \in 1..K |-> <<"std_u", k, tt>>]]

\* scale(...) (lines 137-182): one entry for every type
Scale(which, T) == [tt \in 1..T |-> <<which, tt>>]

VStart ==
    /\ v_shareable \in {SubSeq(s, 1, K) : s \in {SHAREABLE, PrefixedGoods}, K \in 1..MaxK}
    /\ v_T \in 1..MaxT
    /\ v_gincl \in {<<>>, [g \in 1..VGroups |-> g]}
    /\ \E t0 \in 1..v_T : \E lacking \in SUBSET (1..NPairs(Len(v_shareable))) :
        \E same \in BOOLEAN :
          v_lasso = [selec |-> Lasso(v_shareable, v_T, t0, lacking),
                     l |-> Lasso(v_shareable, v_T, t0, IF same THEN lacking ELSE {}),
                     u |-> Lasso(v_shareable, v_T, t0, IF same THEN lacking ELSE {})]
    /\ v_emptyfit \in BOOLEAN
    /\ v_tt = 1
    /\ v_eqs = NoEqs
    /\ v_acc = NoAcc
    /\ v_ret = <<>>
    /\ v_cov = NoEqs
    /\ v_pc = "eqs"

VIdle ==
    /\ v_shareable = <<>> /\ v_T = 0 /\ v_gincl = <<>> /\ v_lasso = NoEqs
    /\ v_emptyfit = FALSE /\ v_tt = 0 /\ v_eqs = NoEqs /\ v_acc = NoAcc
    /\ v_ret = <<>> /\ v_cov = NoEqs /\ v_pc = "idle"

\* lines 392-431 for type v_tt
BuildEquations ==
    /\ v_pc = "eqs"
    /\ v_eqs' = VarEqs(v_tt, v_gincl, v_shareable, v_lasso)
    /\ v_pc' = "fit"
    /\ UNCHANGED <<v_shareable, v_T, v_gincl, v_lasso, v_emptyfit, v_tt,
                   v_acc, v_ret, v_cov, notV>>

\* the three fits and assignments go through
FitGoesThrough ==
    /\ \A s \in {v_eqs.selec, v_eqs.l, v_eqs.u} :
          /\ EmptyEquation(s) => v_emptyfit
          /\ TriuAssigns(Len(v_shareable), CovVal(s))

\* lines 433-507 for type v_tt
FitAndAssemble ==
    /\ v_pc = "fit"
    /\ FitGoesThrough
    /\ \E e \in {TypeEntries(v_tt, Len(v_shareable), CovVal(v_eqs.selec))} :
          v_acc' = [f \in DOMAIN v_acc |-> v_acc[f] \o e[f]]
    /\ v_cov' = CovMatrices(Len(v_shareable), v_eqs)
    /\ v_tt' = v_tt + 1
    /\ v_pc' = IF v_tt = v_T THEN "scale" ELSE "eqs"
    /\ UNCHANGED <<v_shareable, v_T, v_gincl, v_lasso, v_emptyfit, v_eqs,
                   v_ret, notV>>

\* SUR(...) rejects an equation without regressors (lines 433-435), or an
\* assignment of lines 450-462 raises ValueError
FitRaises ==
    /\ v_pc = "fit"
    /\ ~FitGoesThrough
    /\ v_pc' = "raised"
    /\ UNCHANGED <<v_shareable, v_T, v_gincl, v_lasso, v_emptyfit, v_tt,
                   v_eqs, v_acc, v_ret, v_cov, notV>>

\* lines 509-533
Return ==
    /\ v_pc = "scale"
    /\ v_ret' = <<v_acc.cov, v_acc.cov_pd, v_acc.cor, v_acc.std,
                  Scale("s", v_T), Scale("sm", v_T), Scale("sf", v_T),
                  v_acc.std_l, v_acc.std_u>>
    /\ v_pc' = "returned"
    /\ UNCHANGED <<v_shareable, v_T, v_gincl, v_lasso, v_emptyfit, v_tt,
                   v_eqs, v_acc, v_cov, notV>>

VNext == BuildEquations \/ FitAndAssemble \/ FitRaises \/ Return

-----------------------------------------------------------------------------
(* The configuration of a run: lines 540-592 and 184-209.  __main__ builds *)
(* shs_boot from its own SHAREABLE, TYPE and DEMOG; bootstrap() receives   *)
(* the array alone and labels its columns from the defaults of its own     *)
(* parameters.  The model follows the number of goods and of types of      *)
(* __main__ up to the first statement of the first replication.            *)

(* Bounds of the configuration model *)
CMaxGoods == 5
CMaxTypes == 3

\* TYPE and DEMOG: the defaults of bootstrap() (lines 192, 195)
TYPE == <<24, 27, 28>>
DEMOG == <<1, 2>>

\* [f'z{i}' for i in (3, 23)] and [f'z{i}' for i in range(29, 51)]
FixedColumns == Len(<<3, 23>>) + (51 - 29)

\* the number of columns of the layout of lines 199-207 and 583-591:
\* s{i}, s{NONSHAREABLE}, p{i}, p{NONSHAREABLE}, x, z{DEMOG}, z3, z23,
\* z{TYPE}, z29..z50
LayoutWidth(goods, demog, types) ==
    goods + 1 + goods + 1 + 1 + demog + FixedColumns + types

CStart ==
    /\ c_goods \in 0..CMaxGoods
    /\ c_types \in 0..CMaxTypes
    /\ c_emptyfit \in BOOLEAN
    /\ c_width = 0
    /\ c_started = 0
    /\ c_pc = "params"

CIdle ==
    /\ c_goods = 0 /\ c_types = 0 /\ c_emptyfit = FALSE /\ c_width = 0
    /\ c_started = 0 /\ c_pc = "idle"

\* lines 557-579: the data is read and filtered; no statement looks at the
\* length of SHAREABLE or of TYPE
ReadData ==
    /\ c_pc = "params"
    /\ c_pc' = "read"
    /\ UNCHANGED <<c_goods, c_types, c_emptyfit, c_width, c_started, notC>>

\* lines 583-592: shs_boot
BuildSample ==
    /\ c_pc = "read"
    /\ c_width' = LayoutWidth(c_goods, Len(DEMOG), c_types)
    /\ c_pc' = "sample"
    /\ UNCHANGED <<c_goods, c_types, c_emptyfit, c_started, notC>>

\* lines 595-867: the point estimates, the masks and the resampling plan
PointEstimates ==
    /\ c_pc = "sample"
    /\ c_goods = 0 => c_emptyfit
    /\ c_pc' = "planned"
    /\ UNCHANGED <<c_goods, c_types, c_emptyfit, c_width, c_started, notC>>

\* line 708: SUR(mean_eqs) of a system without equations raises
PointEstimatesRaise ==
    /\ c_pc = "sample"
    /\ c_goods = 0 /\ ~c_emptyfit
    /\ c_pc' = "raised"
    /\ UNCHANGED <<c_goods, c_types, c_emptyfit, c_width, c_started, notC>>

\* lines 871-877: the first task is handed to a worker
FirstTaskStarts ==
    /\ c_pc = "planned"
    /\ c_started' = c_started + 1
    /\ c_pc' = "task"
    /\ UNCHANGED <<c_goods, c_types, c_emptyfit, c_width, notC>>

\* lines 197-208 in the worker: pd.DataFrame(shs_data, columns=...) takes
\* an array with as many columns as names
FrameBuilt ==
    /\ c_pc = "task"
    /\ c_width = LayoutWidth(Len(SHAREABLE), Len(DEMOG), Len(TYPE))
    /\ c_pc' = "replicating"
    /\ UNCHANGED <<c_goods, c_types, c_emptyfit, c_width, c_started, notC>>

\* lines 197-208 in the worker: pd.DataFrame raises ValueError on an array
\* of another width, and line 877 re-raises it in the parent
FrameRaises ==
    /\ c_pc = "task"
    /\ c_width # LayoutWidth(Len(SHAREABLE), Len(DEMOG), Len(TYPE))
    /\ c_pc' = "raised"
    /\ UNCHANGED <<c_goods, c_types, c_emptyfit, c_width, c_started, notC>>

CNext ==
    \/ ReadData \/ BuildSample \/ PointEstimates \/ PointEstimatesRaise
    \/ FirstTaskStarts \/ FrameBuilt \/ FrameRaises

-----------------------------------------------------------------------------
(* barten_results and barten: lines 68-135, on the parameter names of the  *)
(* mean system of lines 274-315.  Names are sequences of characters, on    *)
(* which the substring tests of lines 123-130 and 310 are computed; an     *)
(* estimate is represented by the name of its parameter.                   *)

(* Bounds of the barten_results model *)
BMaxGoods == 3
BMaxTypes == 10

\* f'h{i+1}' (lines 128, 250)
HTag(k) == <<"h">> \o Digits(k)

\* NAME_t_single (line 252) and NAME_t (line 250)
NAME_t_single(T) == <<<<"s">>>> \o [k \in 1..T |-> HTag(k)]
NAME_t(T) == <<<<"s", "m">>, <<"s", "f">>>> \o [k \in 1..T |-> HTag(k)]

\* f'er{SHAREABLE[i]}y_' (line 310)
ErPrefix(good) == <<"e", "r">> \o Digits(good) \o <<"y", "_">>

\* NAME_eryt (lines 277-281): for tt in NAME_t_single for i in goods
NAME_eryt(goods, T) ==
    Flatten([t \in 1..(T + 1) |->
        [k \in DOMAIN goods |-> ErPrefix(goods[k]) \o NAME_t_single(T)[t]]])

\* NAME_zt (lines 285-289): for tt in NAME_t for i in DEMOG
NAME_zt(T) ==
    Flatten([t \in 1..(T + 2) |->
        [d \in DOMAIN DEMOG |-> <<"z">> \o Digits(DEMOG[d]) \o <<"_">> \o NAME_t(T)[t]]])

\* exog.columns of mean equation k (lines 309-312)
MeanExog(goods, T, k) ==
    SelectSeq(NAME_eryt(goods, T), LAMBDA col : Contains(col, ErPrefix(goods[k])))
    \o NAME_zt(T)

\* mean_est.params.index: 'eq{k}_{col}' in equation order (lines 313-315)
MeanParams(goods, T) ==
    Flatten([k \in DOMAIN goods |->
        [n \in DOMAIN MeanExog(goods, T, k) |->
            <<"e", "q">> \o Digits(k) \o <<"_">> \o MeanExog(goods, T, k)[n]]])

\* params[index.str.contains(tag) & ~index.str.contains('z')]
\* (lines 123-130)
Theta(params, tag) ==
    SelectSeq(params, LAMBDA name :
        Contains(name, tag) /\ ~Contains(name, <<"z">>))

\* barten(theta, num_eq) (lines 88-93): b_h / b_s raises unless the two
\* have one length or one of them has length 1; the ratios are pairs
BartenShapesFit(b_s, b_h) == Len(b_s) = Len(b_h) \/ Len(b_s) = 1 \/ Len(b_h) = 1

barten(b_s, b_h) ==
    [k \in 1..(IF Len(b_s) > Len(b_h) THEN Len(b_s) ELSE Len(b_h)) |->
        <<b_h[IF Len(b_h) = 1 THEN 1 ELSE k], b_s[IF Len(b_s) = 1 THEN 1 ELSE k]>>]

BRStart ==
    /\ br_goods \in {SubSeq(SHAREABLE, 1, K) : K \in 1..BMaxGoods}
    /\ br_T \in 1..BMaxTypes
    /\ br_i = 1
    /\ br_theta_s = <<>>
    /\ br_theta_h = <<>>
    /\ br_a = <<>>
    /\ br_pc = "loop"

BRIdle ==
    /\ br_goods = <<>> /\ br_T = 0 /\ br_i = 0 /\ br_theta_s = <<>>
    /\ br_theta_h = <<>> /\ br_a = <<>> /\ br_pc = "idle"

\* theta_s and theta_h of type i (lines 123-130)
Thetas(goods, T, i) ==
    [s |-> Theta(MeanParams(goods, T), <<"s">>),
     h |-> Theta(MeanParams(goods, T), HTag(i))]

\* a[f'h{i}'] = barten(theta, len(NAME_w)) takes K values (line 133)
ColumnFits(goods, th) ==
    BartenShapesFit(th.s, th.h) /\ Len(barten(th.s, th.h)) = Len(goods)

\* one pass of the loop of lines 122-133: the column of type br_i
BartenColumn ==
    /\ br_pc = "loop"
    /\ br_i <= br_T
    /\ \E th \in {Thetas(br_goods, br_T, br_i)} :
          /\ ColumnFits(br_goods, th)
          /\ br_theta_s' = th.s
          /\ br_theta_h' = th.h
          /\ br_a' = Append(br_a, barten(th.s, th.h))
    /\ br_i' = br_i + 1
    /\ UNCHANGED <<br_goods, br_T, br_pc, notBR>>

\* one pass of the loop of lines 122-133 in which the division of line 91
\* or the assignment of line 133 raises ValueError
BartenRaises ==
    /\ br_pc = "loop"
    /\ br_i <= br_T
    /\ \E th \in {Thetas(br_goods, br_T, br_i)} :
          /\ ~ColumnFits(br_goods, th)
          /\ br_theta_s' = th.s
          /\ br_theta_h' = th.h
    /\ br_pc' = "raised"
    /\ UNCHANGED <<br_goods, br_T, br_i, br_a, notBR>>

\* return a (line 135)
BartenReturn ==
    /\ br_pc = "loop"
    /\ br_i > br_T
    /\ br_pc' = "returned"
    /\ UNCHANGED <<br_goods, br_T, br_i, br_theta_s, br_theta_h, br_a, notBR>>

BRNext == BartenColumn \/ BartenRaises \/ BartenReturn

-----------------------------------------------------------------------------
(* scale: lines 137-182, as called at lines 509-530.  Numbers are symbolic:*)
(* an entry of barten, cov, w_bar or w_cov is a name, "zero" or "one"; a   *)
(* product is the tuple of its factors and vanishes with a "zero" factor;  *)
(* a sum is the set of its products that do not vanish.                    *)

(* Bounds of the scale model *)
SMaxGoods == 3
SMaxTypes == 3

\* barten_results(...): K rows, one column for every type (lines 118-133)
BartenFrame(K, T) == [t \in 1..T |-> [k \in 1..K |-> <<"a", k, t>>]]
\* cov_matrix_pd (lines 388, 467): K x K for every type
CovMatrixPd(K, T) ==
    [t \in 1..T |-> [j \in 1..K |-> [k \in 1..K |-> <<"cov", j, k, t>>]]]
\* w_bar and w_cov of the rows of data with single_indicator == 1
\* (lines 169-170): K + 1 means, (K + 1) x (K + 1) covariances
WBar(K, which) == [j \in 1..(K + 1) |-> <<"w_bar", which, j>>]
WCov(K, which) ==
    [j \in 1..(K + 1) |-> [k \in 1..(K + 1) |-> <<"w_cov", which, j, k>>]]

Zero == <<"zero">>
One == <<"one">>

\* v @ M @ v
Quad(v, M) ==
    {<<v[j], M[j][k], v[k]>> : j \in DOMAIN v, k \in DOMAIN v}
        \ {term \in {<<v[j], M[j][k], v[k]>> : j \in DOMAIN v, k \in DOMAIN v} :
              Zero \in {term[1], term[2], term[3]}}

\* a block matrix with the unit entry in its last place
BlockWithUnit(cov, K) ==
    [j \in 1..(K + 1) |-> [k \in 1..(K + 1) |->
        IF j <= K /\ k <= K THEN cov[j][k]
        ELSE IF j = K + 1 /\ k = K + 1 THEN One ELSE Zero]]

\* np.block([[cov[:, :, i], np.zeros((K, 1))], [np.zeros((1, K + 1))]])
\* (lines 175-178)
BartenCovFull(cov, K) ==
    [j \in 1..(K + 1) |-> [k \in 1..(K + 1) |->
        IF j <= K /\ k <= K THEN cov[j][k] ELSE Zero]]

\* np.concatenate([barten.iloc[:, i], [1]]) (line 174)
BartenFull(barten_hat, i) == Append(barten_hat[i], One)

\* cov[:, :, i] (line 176)
CovOfType(cov, i) == cov[i]

\* np.sqrt(barten_full @ w_cov @ barten_full
\*         + w_bar @ barten_cov_full @ w_bar) (lines 179-180)
ScaleStd(barten_hat, cov, K, which, i) ==
    <<"sqrt",
      Quad(BartenFull(barten_hat, i), WCov(K, which))
          \cup Quad(WBar(K, which), BartenCovFull(CovOfType(cov, i), K))>>

SStart ==
    /\ s_K \in 1..SMaxGoods
    /\ s_T \in 1..SMaxTypes
    /\ s_which \in {"s", "sm", "sf"}
    /\ s_i = 1
    /\ s_std = <<>>
    /\ s_pc = "loop"

SIdle ==
    /\ s_K = 0 /\ s_T = 0 /\ s_which = "" /\ s_i = 0 /\ s_std = <<>>
    /\ s_pc = "idle"

\* one pass of the loop of lines 173-180
ScaleType ==
    /\ s_pc = "loop"
    /\ s_i <= s_T
    /\ s_std' = Append(s_std,
                       ScaleStd(BartenFrame(s_K, s_T), CovMatrixPd(s_K, s_T),
                                s_K, s_which, s_i))
    /\ s_i' = s_i + 1
    /\ UNCHANGED <<s_K, s_T, s_which, s_pc, notS>>

\* return np.array(std) (line 182)
ScaleReturn ==
    /\ s_pc = "loop"
    /\ s_i > s_T
    /\ s_pc' = "returned"
    /\ UNCHANGED <<s_K, s_T, s_which, s_i, s_std, notS>>

SNext == ScaleType \/ ScaleReturn

-----------------------------------------------------------------------------
(* The specifications, one for every part of the program *)
DInit == DStart /\ EIdle /\ PIdle /\ RIdle /\ VIdle /\ CIdle /\ BRIdle /\ SIdle
EInit == DIdle /\ EStart /\ PIdle /\ RIdle /\ VIdle /\ CIdle /\ BRIdle /\ SIdle
PInit == DIdle /\ EIdle /\ PStart /\ RIdle /\ VIdle /\ CIdle /\ BRIdle /\ SIdle
RInit == DIdle /\ EIdle /\ PIdle /\ RStart /\ VIdle /\ CIdle /\ BRIdle /\ SIdle
VInit == DIdle /\ EIdle /\ PIdle /\ RIdle /\ VStart /\ CIdle /\ BRIdle /\ SIdle
CInit == DIdle /\ EIdle /\ PIdle /\ RIdle /\ VIdle /\ CStart /\ BRIdle /\ SIdle
BRInit == DIdle /\ EIdle /\ PIdle /\ RIdle /\ VIdle /\ CIdle /\ BRStart /\ SIdle
SInit == DIdle /\ EIdle /\ PIdle /\ RIdle /\ VIdle /\ CIdle /\ BRIdle /\ SStart
SpecDemean == DInit /\ [][DNext]_vars
SpecExcl == EInit /\ [][ENext]_vars
SpecPlan == PInit /\ [][PNext]_vars
SpecRun == RInit /\ [][RNext]_vars
SpecVar == VInit /\ [][VNext]_vars
SpecConfig == CInit /\ [][CNext]_vars
SpecBarten == BRInit /\ [][BRNext]_vars
SpecScale == SInit /\ [][SNext]_vars

\* how often cluster c occurs among the rows a resampling row picks
Occurrences(clusters, row, c) ==
    Cardinality({pos \in DOMAIN row : clusters[row[pos] + 1] = c})

\* the row has N indices in 0..N-1, position by position from the cluster
\* of the base observation at that position
ClusterPreserving(clusters, row) ==
    /\ DOMAIN row = 0..(Len(clusters) - 1)
    /\ \A pos \in DOMAIN row :
          /\ row[pos] \in 0..(Len(clusters) - 1)
          /\ clusters[row[pos] + 1] = clusters[pos + 1]
    /\ \A c \in {clusters[j] : j \in DOMAIN clusters} :
          Occurrences(clusters, row, c) = Cardinality({j \in DOMAIN clusters : clusters[j] = c})

SortedInSetOrder(clusters, order) ==
    /\ Len(order) >= 2
    /\ \A j, k \in DOMAIN clusters :
          j < k =>
              (CHOOSE a \in DOMAIN order : order[a] = clusters[j])
                  <= (CHOOSE a \in DOMAIN order : order[a] = clusters[k])

RunAlone(i) == bootstrap(r_resampling[i], r_base, r_lasso)

(* C5 as stated: when a replication raises inside bootstrap(), the failure *)
(* stays with that replication: the run does not crash.                    *)
C5_FailureStaysLocal ==
    (\E i \in DOMAIN r_task : r_task[i] = "raised") => r_pc # "crashed"

\* no worker and no step of the parent can act: no task is waiting or
\* running, the result the parent waits for has not arrived, and the
\* parent is not filling the stores
Stopped ==
    /\ r_pc = "imap" =>
          /\ \A i \in RReps : r_task[i] \notin {"queued", "running"}
          /\ Len(r_results) < RRep
          /\ ImapIndex(Len(r_results), r_outqueue) \notin Finished(r_outqueue)
    /\ r_pc # "stores"

(* C6: the batch run has two outcomes.  Either it aggregates, and then     *)
(* over the summaries of all R replications, every one of them completed;  *)
(* or it aborts on a failed replication and aggregates nothing.  It stops  *)
(* nowhere else, and never aggregates a proper subset.                     *)
C6_AllOrNothing ==
    /\ r_se # <<>> =>
          /\ r_pc = "aggregated"
          /\ Len(r_se) = RRep
          /\ \A i \in RReps :
                r_task[i] = "done" /\ ~r_se[i].raised /\ r_se[i] = r_ret[i]
    /\ r_pc = "aggregated" => r_se # <<>>
    /\ r_pc = "crashed" =>
          r_se = <<>> /\ \E i \in RReps : r_task[i] = "raised"
    /\ Stopped => r_pc \in {"aggregated", "crashed"}

\* the run has aggregated over all replications, two of them different
C6_Witness ==
    /\ r_pc = "aggregated"
    /\ Len(r_se) = RRep
    /\ \E i, j \in RReps : r_se[i] # r_se[j]

(* C7: for every order in which the workers finish, row i of the stores    *)
(* and of the aggregated rows holds the summary computed from resampling   *)
(* vector i.                                                               *)
C7_RowsMatchIndex ==
    /\ \A i \in DOMAIN r_store : r_store[i] = RunAlone(i)
    /\ \A i \in DOMAIN r_se : r_se[i] = RunAlone(i)

\* the stores are full, the second task finished before the first, and
\* their summaries differ
C7_Witness ==
    /\ r_pc = "stores"
    /\ Len(r_store) = RRep
    /\ r_outqueue[1] # 1
    /\ r_store[1] # r_store[r_outqueue[1]]

ProdOf(shareable, i) ==
    ProdName(shareable[GoodPairs(Len(shareable))[i][1]],
             shareable[GoodPairs(Len(shareable))[i][2]])

(* C9 as stated: for every type and every good pair the regressors of the  *)
(* central, the lower and the upper variance equation contain that pair's  *)
(* ber cross-product column, whatever the masks hold.                      *)
C9_ProdAlwaysRegressor ==
    v_eqs # NoEqs =>
        \A s \in {v_eqs.selec, v_eqs.l, v_eqs.u} : \A i \in DOMAIN s :
            InList(s[i], ProdOf(v_shareable, i))

\* the name ends with the tokens of suffix
EndsWith(name, suffix) ==
    /\ Len(name) >= Len(suffix)
    /\ SubSeq(name, Len(name) - Len(suffix) + 1, Len(name)) = suffix

\* field has per entries for every one of T types, in type order
TypeOrdered(field, per, T, TypeIs(_, _)) ==
    /\ Len(field) = T * per
    /\ \A n \in DOMAIN field : TypeIs(field[n], ((n - 1) \div per) + 1)

(* C10 as stated: a replication that completes returns cov, cov_pd and cor *)
(* of length T*K*(K+1)/2, std, std_l and std_u of length T*K and the three *)
(* scale-index vectors of length T, each concatenated in type order.       *)
C10_SummaryLayout ==
    v_pc = "returned" =>
        LET K == Len(v_shareable)
            tri == (K * (K + 1)) \div 2
            Tagged(entry, tt) == entry[Len(entry)] = tt
            Named(entry, tt) == EndsWith(entry, <<"_", "h">> \o Digits(tt))
        IN /\ Len(v_ret) = 9
           /\ TypeOrdered(v_ret[1], tri, v_T, Named)
           /\ TypeOrdered(v_ret[2], tri, v_T, Tagged)
           /\ TypeOrdered(v_ret[3], tri, v_T, Tagged)
           /\ TypeOrdered(v_ret[4], K, v_T, Tagged)
           /\ TypeOrdered(v_ret[5], 1, v_T, Tagged)
           /\ TypeOrdered(v_ret[6], 1, v_T, Tagged)
           /\ TypeOrdered(v_ret[7], 1, v_T, Tagged)
           /\ TypeOrdered(v_ret[8], K, v_T, Tagged)
           /\ TypeOrdered(v_ret[9], K, v_T, Tagged)

\* a configuration the run has to reject: shs_boot does not have the width
\* of the layout bootstrap() declares, no shareable good, or fewer than 2
\* household types
BadConfiguration ==
    \/ LayoutWidth(c_goods, Len(DEMOG), c_types)
           # LayoutWidth(Len(SHAREABLE), Len(DEMOG), Len(TYPE))
    \/ c_goods = 0
    \/ c_types < 2

(* C11 as stated: a run whose configuration has a column/shape mismatch,   *)
(* an empty shareable-good list or fewer than 2 household types is aborted *)
(* before any replication task starts.                                     *)
C11_BadConfigurationStartsNoTask ==
    (c_pc # "idle" /\ BadConfiguration) => c_started = 0

(* C12: demean is idempotent: for every var and every gt in which each row *)
(* belongs to exactly one group, demean(demean(var, gt), gt) equals        *)
(* demean(var, gt).                                                        *)
C12_DemeanIdempotent ==
    (d_pc = "again" /\ EachRowOneGroup(d_gt, DRows)) => d_again = d_out

\* demean has been applied twice to a group of two rows with different
\* values
C12_Witness ==
    /\ d_pc = "again"
    /\ EachRowOneGroup(d_gt, DRows)
    /\ \E g \in DGroups : \E n, m \in GroupIndex(d_gt, g) : \E p \in DCols :
          /\ d_var[n][p] # d_var[m][p]
          /\ d_again[n][p] # RatZero

\* the mean of column p over the rows of S, computed from the input
MeanOver(var, S, p) ==
    LET s == RatSum([n \in S |-> var[n][p]], S)
    IN Rat(s[1], s[2] * Cardinality(S))

\* the rows listed for the same group as row n
GroupMates(gt, n) ==
    {e[1] : e \in {x \in gt : \E y \in gt : y[1] = n /\ y[2] = x[2]}}

(* C13: demean preserves shape and row order: the output has the N x P     *)
(* shape of the input, with every row in exactly one group output row n is *)
(* input row n minus the column means of the rows of its group, and with   *)
(* all N rows in one single group it is input row n minus the column means *)
(* over all rows.                                                          *)
C13_ShapeAndRowOrder ==
    d_pc = "done" =>
        /\ DOMAIN d_out = DOMAIN d_var
        /\ \A n \in DOMAIN d_var : DOMAIN d_out[n] = DOMAIN d_var[n]
        /\ EachRowOneGroup(d_gt, DRows) =>
              \A n \in DRows : \A p \in DCols :
                  d_out[n][p] =
                      RatSub(d_var[n][p], MeanOver(d_var, GroupMates(d_gt, n), p))
        /\ \A g \in DGroups :
              d_gt = {<<n, g>> : n \in DRows} =>
                  \A n \in DRows : \A p \in DCols :
                      d_out[n][p] = RatSub(d_var[n][p], MeanOver(d_var, DRows, p))

\* all rows are in one single group, with two different values in a column
C13_Witness ==
    /\ d_pc = "done"
    /\ \E g \in DGroups : d_gt = {<<n, g>> : n \in DRows}
    /\ \E n, m \in DRows : \E p \in DCols :
          d_var[n][p] # d_var[m][p] /\ d_out[n][p] # d_out[m][p]

\* every row is listed for at most one group
AtMostOneGroup(gt, rows) ==
    \A n \in rows : Cardinality({e \in gt : e[1] = n}) <= 1

\* the rows that gt lists for group g
RowsListed(gt, g) == {n \in DRows : <<n, g>> \in gt}

(* C16: for every var and every assignment of the rows to groups, a row    *)
(* that is the only member of its group is mapped to an all-zero row, and  *)
(* the rows of the other groups come out as they do when that group is     *)
(* absent from gt.                                                         *)
C16_SingletonGroupZero ==
    (d_pc = "done" /\ AtMostOneGroup(d_gt, DRows)) =>
        \A g \in DGroups : \A n \in DRows :
            RowsListed(d_gt, g) = {n} =>
                /\ \A p \in DCols : d_out[n][p] = RatZero
                /\ \A m \in DRows \ {n} :
                      d_out[m] = demean(d_var, d_gt \ {<<n, g>>})[m]

\* a row with a nonzero value is alone in its group and mapped to zero,
\* next to a row of another group
C16_Witness ==
    /\ d_pc = "done"
    /\ AtMostOneGroup(d_gt, DRows)
    /\ \E g, h \in DGroups : \E n \in DRows : \E p \in DCols :
          /\ RowsListed(d_gt, g) = {n}
          /\ g # h /\ RowsListed(d_gt, h) # {}
          /\ d_var[n][p] # RatZero
          /\ d_out[n][p] = RatZero

\* 'eq{k}_er{goods[k]}y_' followed by the tag, for every good in good order
ErParams(goods, tag) ==
    [k \in DOMAIN goods |->
        <<"e", "q">> \o Digits(k) \o <<"_">> \o ErPrefix(goods[k]) \o tag]

\* the type of the last pass of the loop
LastType == IF br_pc = "raised" THEN br_i ELSE br_i - 1

(* C14 as stated: for every type t in 1..T theta_h holds exactly the K     *)
(* coefficients on er{k}y_h{t} in good order and theta_s the K             *)
(* coefficients on er{k}y_s, so column t of the result is their            *)
(* elementwise ratio and no other type's coefficient is picked up.         *)
C14_ThetaOfOwnType ==
    (br_pc # "idle" /\ LastType >= 1) =>
        /\ br_theta_s = ErParams(br_goods, <<"s">>)
        /\ br_theta_h = ErParams(br_goods, HTag(LastType))
        /\ br_pc # "raised"
        /\ \A t \in DOMAIN br_a :
              br_a[t] = [k \in DOMAIN br_goods |->
                          <<ErParams(br_goods, HTag(t))[k],
                            ErParams(br_goods, <<"s">>)[k]>>]

(* C15: for every type t the value scale() returns is                      *)
(* sqrt(a' w_cov a + w_bar' C w_bar), a being the K scale estimates of     *)
(* type t followed by 1 and C the K x K covariance of the same type t with *)
(* an all-zero row and column added: the second term has the products of   *)
(* the K shareable goods only.                                             *)
C15_ScaleFormula ==
    \A t \in DOMAIN s_std :
        s_std[t] =
            <<"sqrt",
              {<<IF j <= s_K THEN <<"a", j, t>> ELSE One,
                 <<"w_cov", s_which, j, k>>,
                 IF k <= s_K THEN <<"a", k, t>> ELSE One>> :
                   j \in 1..(s_K + 1), k \in 1..(s_K + 1)}
              \cup
              {<<<<"w_bar", s_which, j>>, <<"cov", j, k, t>>, <<"w_bar", s_which, k>>>> :
                   j \in 1..s_K, k \in 1..s_K}>>

\* scale() has returned the values of at least two types for two goods
C15_Witness ==
    /\ s_pc = "returned"
    /\ Len(s_std) >= 2
    /\ s_K >= 2

(* C17: after the exclusion of a replication the working sample, g, t and  *)
(* gt have the same number of rows, and at every row position they         *)
(* describe the same resampled observation.                                *)
C17_SameRows ==
    e_pc = "done" =>
        /\ Len(b_g) = Len(b_shs)
        /\ Len(b_t) = Len(b_shs)
        /\ {p[1] : p \in b_gt} = DOMAIN b_shs
        /\ \A n \in DOMAIN b_shs :
              /\ b_g[n] = e_base[b_shs[n].label].g
              /\ b_t[n] = e_base[b_shs[n].label].t
              /\ \A p \in b_gt :
                    p[1] = n => p[2] = GtCol(e_base[b_shs[n].label].t,
                                             e_base[b_shs[n].label].g)

\* a replication has dropped a row that lies before a row it keeps, and the
\* rows it keeps have not all the type of the row dropped
C17_Witness ==
    /\ e_pc = "done"
    /\ b_shs # <<>>
    /\ \E k \in b_idx : \E n \in DOMAIN e_resampling :
          /\ n > k
          /\ n \notin b_idx
          /\ e_base[e_resampling[n]].t # e_base[e_resampling[k]].t

\* the rows of a gt-cell of the working sample
CellRows(gt, i) == {p \in gt : p[2] = i}

\* the row count of group i in the g_new of a type
GroupCount(res, i) == Cardinality({p \in res.g_new : p[2] = i})

(* C19: after the exclusion, in the point-estimate pass and in every       *)
(* replication, every gt-cell of the working sample that is not empty has  *)
(* at least two rows; so for every couple type the groups kept as          *)
(* regressor groups are the groups that are not empty within the type, and *)
(* no group demeaned in the variance stage is a singleton.                 *)
C19_NoSingletonCell ==
    /\ \A i \in GtCols :
          /\ Cardinality(CellRows(m_gt, i)) # 1
          /\ Cardinality(CellRows(b_gt, i)) # 1
    /\ \A tt \in DOMAIN m_var : \A i \in EG :
          /\ i \in m_var[tt].g_included <=> GroupCount(m_var[tt], i) > 0
          /\ GroupCount(m_var[tt], i) # 1
    /\ \A tt \in DOMAIN b_var : \A i \in EG :
          /\ i \in b_var[tt].g_included <=> GroupCount(b_var[tt], i) > 0
          /\ GroupCount(b_var[tt], i) # 1

\* both passes have excluded a cell and kept a cell of a couple type
C19_Witness ==
    /\ e_pc = "done"
    /\ m_excl # {} /\ b_excl # {}
    /\ \E tt \in DOMAIN m_var : m_var[tt].g_included # {}
    /\ \E tt \in DOMAIN b_var : b_var[tt].g_included # {}

\* the place of pair (i, j) in the enumeration of the equations
PairPlace(K, i, j) == CHOOSE p \in 1..NPairs(K) : GoodPairs(K)[p] = <<i, j>>

(* C18 as stated: every covariance matrix assembled from a fit is          *)
(* symmetric, and its entry (i, j), i <= j, is the coefficient on the ber   *)
(* cross-product column of the equation of pair (i, j).                    *)
C18_EntryIsPairCoefficient ==
    \A s \in DOMAIN v_cov : \A i \in DOMAIN v_cov[s] : \A j \in DOMAIN v_cov[s] :
        /\ v_cov[s][i][j] = v_cov[s][j][i]
        /\ i <= j =>
             v_cov[s][i][j] =
                 ParamName(PairPlace(Len(v_shareable), i, j),
                           ProdOf(v_shareable, PairPlace(Len(v_shareable), i, j)))

\* every mask holds the cross-product column of its equation
MasksHoldProd ==
    \A s \in DOMAIN v_lasso : \A e \in DOMAIN v_lasso[s] :
        InList(v_lasso[s][e],
               ProdOf(v_shareable, ((e - 1) % NPairs(Len(v_shareable))) + 1))

\* with the cross-product in every mask the matrices are as C18 states
C18_HoldsWithFullMasks == MasksHoldProd => C18_EntryIsPairCoefficient

\* matrices of two goods have been assembled
C18_Assembled ==
    /\ v_cov # NoEqs
    /\ Len(v_shareable) >= 2

====
